---------------------------- MODULE Spec2Model ----------------------------
(***************************************************************************)
(* Elevator simulation: Building::simulate (src/Building.h) driving        *)
(* Elevator::update (Elevator.h, logged revision) over Floor and Passenger *)
(* records.  One state per step of the scheduling loop: the loop test,     *)
(* each intake of one passenger, each elevator update, the clock           *)
(* increment, and the statistics pass after the loop.                      *)
(***************************************************************************)
EXTENDS Integers, Sequences, FiniteSets, TLC

(***************************************************************************)
(* Program constants                                                       *)
(***************************************************************************)
CAPACITY == 8
ELEVATOR1_START == 100
ELEVATOR2_START == 500
ELEVATOR3_START == 700
MAX_FLOOR_NUMBER == 100

(***************************************************************************)
(* Bounds of the model                                                     *)
(***************************************************************************)
MaxTime == 130
MaxGroups == 2
MaxExtra == 1
MaxStaggerTime == 720

VARIABLES
    NUM_OF_FLOORS,          \* Building::NUM_OF_FLOORS
    NUM_OF_ELEVATORS,       \* Building::NUM_OF_ELEVATORS
    ELEVATOR_SPEED,         \* Building::ELEVATOR_SPEED
    ELEVATOR_STOPPING_TIME, \* Building::ELEVATOR_STOPPING_TIME
    feed,                   \* rows of the CSV file read at construction
    passengers,             \* Building::passengers, the intake queue
    floors,                 \* Building::floors
    elevators,              \* Building::elevators, indexed from 0
    currentTime,            \* Building::currentTime
    totalPassenger,         \* Building::totalPassenger
    deliveredPassenger,     \* Building::deliveredPassenger
    pc,                     \* position in Building::simulate
    idx,                    \* the elevator whose update call is next in this tick
    log                     \* pickup and drop-off lines written by the elevators

vars == <<NUM_OF_FLOORS, NUM_OF_ELEVATORS, ELEVATOR_SPEED, ELEVATOR_STOPPING_TIME,
          feed, passengers, floors, elevators, currentTime, totalPassenger,
          deliveredPassenger, pc, idx, log>>

config == <<NUM_OF_FLOORS, NUM_OF_ELEVATORS, ELEVATOR_SPEED, ELEVATOR_STOPPING_TIME,
            feed, totalPassenger>>

(***************************************************************************)
(* Passenger                                                               *)
(***************************************************************************)
PassengerValid(startFloor, endFloor) ==
    ~(startFloor < 1 \/ startFloor > MAX_FLOOR_NUMBER
      \/ endFloor < 1 \/ endFloor > MAX_FLOOR_NUMBER)

Passenger(passengerID, startTime, startFloor, endFloor) ==
    [passengerID |-> passengerID,
     startTime   |-> startTime,
     startFloor  |-> startFloor,
     endFloor    |-> endFloor,
     direction   |-> IF startFloor < endFloor THEN "UP" ELSE "DOWN",
     waitTime    |-> 0,
     travelTime  |-> 0]

\* operands of the subtraction exchanged
calculateWaitTimeSwapped(p, time) ==
    [p EXCEPT !.waitTime = p.startTime - time]

calculateWaitTime(p, time) ==
    [p EXCEPT !.waitTime = time - p.startTime]

\* the wait not taken off
calculateTravelTimeFromStart(p, time) ==
    [p EXCEPT !.travelTime = time - p.startTime]

calculateTravelTime(p, time) ==
    [p EXCEPT !.travelTime = time - (p.startTime + p.waitTime)]

(***************************************************************************)
(* Statistic                                                               *)
(***************************************************************************)
RECURSIVE SumOf(_)
SumOf(numberList) ==
    IF numberList = <<>> THEN 0 ELSE Head(numberList) + SumOf(Tail(numberList))

\* getAverage: quiet NaN for the empty list, else the quotient sum / size
getAverage(numberList) ==
    IF Len(numberList) = 0
    THEN [nan |-> TRUE, sum |-> 0, size |-> 0]
    ELSE [nan |-> FALSE, sum |-> SumOf(numberList), size |-> Len(numberList)]

(***************************************************************************)
(* Floor                                                                   *)
(***************************************************************************)
Floor(floorNumber) ==
    [floorNumber         |-> floorNumber,
     waitingPassengers   |-> <<>>,
     deliveredPassengers |-> <<>>]

\* the passenger is added to a copy of the floor (Building revision without
\* the reference)
addWaitingPassengerToCopy(floor, p) == floor

addWaitingPassenger(floor, p) ==
    [floor EXCEPT !.waitingPassengers = Append(@, p)]

hasWaitingPassengers(floor) == floor.waitingPassengers # <<>>

(***************************************************************************)
(* Elevator                                                                *)
(***************************************************************************)
Elevator(elevatorNum, speed, elevatorStoppingTime) ==
    [elevatorID         |-> elevatorNum,
     ELEVATOR_SPEED     |-> speed,
     ELEVATOR_STOP_TIME |-> elevatorStoppingTime,
     currentFloor       |-> 1,
     nextActionTime     |-> 0,
     direction          |-> "UP",
     state              |-> "STOPPED",
     passengers         |-> <<>>]

hasPassengers(e) == e.passengers # <<>>

\* the waiting passengers not looked at
shouldStopForBoardedOnly(e, floor) ==
    \E i \in 1..Len(e.passengers) : e.passengers[i].endFloor = floor.floorNumber

\* the destinations of the boarded passengers not looked at
shouldStopForWaitingOnly(e, floor) ==
    IF Len(e.passengers) > CAPACITY
    THEN FALSE
    ELSE \E i \in 1..Len(floor.waitingPassengers) :
            floor.waitingPassengers[i].direction = e.direction

\* the direction of the waiting passengers not looked at
shouldStopAnyDirection(e, floor) ==
    IF \E i \in 1..Len(e.passengers) : e.passengers[i].endFloor = floor.floorNumber
    THEN TRUE
    ELSE IF Len(e.passengers) > CAPACITY
    THEN FALSE
    ELSE floor.waitingPassengers # <<>>

shouldStopAtFloor(e, floor) ==
    IF \E i \in 1..Len(e.passengers) : e.passengers[i].endFloor = floor.floorNumber
    THEN TRUE
    ELSE IF Len(e.passengers) > CAPACITY
    THEN FALSE
    ELSE \E i \in 1..Len(floor.waitingPassengers) :
            floor.waitingPassengers[i].direction = e.direction

\* the capacity tested after the boarding (Elevator revision without logging)
RECURSIVE PickUpLoopTestAfter(_, _, _, _, _)
PickUpLoopTestAfter(boarded, kept, rest, direction, time) ==
    IF rest = <<>> THEN [passengers |-> boarded, waiting |-> kept]
    ELSE LET match == Head(rest).direction = direction
             b == IF match THEN Append(boarded, [Head(rest) EXCEPT
                                                    !.waitTime = time - Head(rest).startTime])
                  ELSE boarded
             k == IF match THEN kept ELSE Append(kept, Head(rest))
         IN  IF Len(b) = CAPACITY
             THEN [passengers |-> b, waiting |-> k \o Tail(rest)]
             ELSE PickUpLoopTestAfter(b, k, Tail(rest), direction, time)

\* the loop left at the first waiting passenger of the other direction
RECURSIVE PickUpLoopBreak(_, _, _, _, _)
PickUpLoopBreak(boarded, kept, rest, direction, time) ==
    IF rest = <<>> THEN [passengers |-> boarded, waiting |-> kept]
    ELSE IF Len(boarded) = CAPACITY \/ Head(rest).direction # direction
    THEN [passengers |-> boarded, waiting |-> kept \o rest]
    ELSE PickUpLoopBreak(Append(boarded, [Head(rest) EXCEPT
                                             !.waitTime = time - Head(rest).startTime]),
                         kept, Tail(rest), direction, time)

\* The loop of pickUpPassengers: `kept` are the waiting passengers already
\* passed over, `rest` the ones from the iterator on.
RECURSIVE PickUpLoop(_, _, _, _, _)
PickUpLoop(boarded, kept, rest, direction, time) ==
    IF rest = <<>> THEN [passengers |-> boarded, waiting |-> kept]
    ELSE IF Len(boarded) = CAPACITY
    THEN [passengers |-> boarded, waiting |-> kept \o rest]
    ELSE IF Head(rest).direction = direction
    THEN PickUpLoop(Append(boarded, calculateWaitTime(Head(rest), time)),
                    kept, Tail(rest), direction, time)
    ELSE PickUpLoop(boarded, Append(kept, Head(rest)), Tail(rest), direction, time)

\* the boarded passengers copied, not erased from the waiting set
pickUpPassengersKeepWaiting(e, floor, time) ==
    LET r == PickUpLoop(e.passengers, <<>>, floor.waitingPassengers, e.direction, time)
    IN  [elevator |-> [e EXCEPT !.passengers = r.passengers],
         floor    |-> floor]

pickUpPassengers(e, floor, time) ==
    LET r == PickUpLoop(e.passengers, <<>>, floor.waitingPassengers, e.direction, time)
    IN  [elevator |-> [e EXCEPT !.passengers = r.passengers],
         floor    |-> [floor EXCEPT !.waitingPassengers = r.waiting]]

\* the test of the destination left out: everybody on board gets off
DropOffLoopEverybody(kept, rest, delivered, floorNumber, time) ==
    [passengers |-> kept,
     delivered  |-> delivered \o [i \in 1..Len(rest) |->
                                    [rest[i] EXCEPT !.travelTime =
                                        time - (rest[i].startTime + rest[i].waitTime)]]]

\* the delivered passenger put at the front of the delivered set
RECURSIVE DropOffLoopFront(_, _, _, _, _)
DropOffLoopFront(kept, rest, delivered, floorNumber, time) ==
    IF rest = <<>> THEN [passengers |-> kept, delivered |-> delivered]
    ELSE IF Head(rest).endFloor = floorNumber
    THEN DropOffLoopFront(kept, Tail(rest),
                          <<[Head(rest) EXCEPT !.travelTime =
                                time - (Head(rest).startTime + Head(rest).waitTime)]>>
                             \o delivered,
                          floorNumber, time)
    ELSE DropOffLoopFront(Append(kept, Head(rest)), Tail(rest), delivered,
                          floorNumber, time)

RECURSIVE DropOffLoop(_, _, _, _, _)
DropOffLoop(kept, rest, delivered, floorNumber, time) ==
    IF rest = <<>> THEN [passengers |-> kept, delivered |-> delivered]
    ELSE IF Head(rest).endFloor = floorNumber
    THEN DropOffLoop(kept, Tail(rest),
                     Append(delivered, calculateTravelTime(Head(rest), time)),
                     floorNumber, time)
    ELSE DropOffLoop(Append(kept, Head(rest)), Tail(rest), delivered, floorNumber, time)

dropOffPassengers(e, floor, time) ==
    LET r == DropOffLoop(<<>>, e.passengers, floor.deliveredPassengers,
                         floor.floorNumber, time)
    IN  [elevator |-> [e EXCEPT !.passengers = r.passengers],
         floor    |-> [floor EXCEPT !.deliveredPassengers = r.delivered]]


\* floors.at(i - 1) of the std::vector: out_of_range when there is no such floor
InRange(fl, floorNumber) == floorNumber \in 1..Len(fl)

\* the floor indexed with currentFloor in the place of currentFloor - 1
StoppedDropOffNextFloor(e, fl, time) ==
    IF e.passengers # <<>> /\ InRange(fl, e.currentFloor + 1)
    THEN LET r == dropOffPassengers(e, fl[e.currentFloor + 1], time)
         IN  [elevator |-> r.elevator,
              floors   |-> [fl EXCEPT ![e.currentFloor + 1] = r.floor]]
    ELSE [elevator |-> e, floors |-> fl]

\* case STOPPED, the drop-off of the boarded passengers
StoppedDropOff(e, fl, time) ==
    IF e.passengers # <<>>
    THEN LET r == dropOffPassengers(e, fl[e.currentFloor], time)
         IN  [elevator |-> r.elevator,
              floors   |-> [fl EXCEPT ![e.currentFloor] = r.floor]]
    ELSE [elevator |-> e, floors |-> fl]

\* the direction forced to DOWN on every floor but the first
StoppedDirectionAnyFloor(e, N) ==
    IF e.currentFloor = 1 THEN [e EXCEPT !.direction = "UP"]
    ELSE [e EXCEPT !.direction = "DOWN"]

\* case STOPPED, the direction forced at the bottom and the top floor
StoppedDirection(e, N) ==
    IF e.currentFloor = 1 THEN [e EXCEPT !.direction = "UP"]
    ELSE IF e.currentFloor = N THEN [e EXCEPT !.direction = "DOWN"]
    ELSE e

\* case STOPPED, the pickup of the passengers waiting on the floor
StoppedPickUp(e, fl, time) ==
    IF fl[e.currentFloor].waitingPassengers # <<>>
    THEN LET r == pickUpPassengers(e, fl[e.currentFloor], time)
         IN  [elevator |-> r.elevator,
              floors   |-> [fl EXCEPT ![e.currentFloor] = r.floor]]
    ELSE [elevator |-> e, floors |-> fl]

\* the departure with the travel time of one floor left out of nextActionTime
StoppedDepartAtOnce(e, time, N) ==
    IF (e.direction = "UP" /\ e.currentFloor # N) \/ (e.direction = "DOWN" /\ e.currentFloor = 1)
    THEN [e EXCEPT !.state = "MOVING_UP", !.nextActionTime = time, !.direction = "UP"]
    ELSE [e EXCEPT !.state = "MOVING_DOWN", !.nextActionTime = time, !.direction = "DOWN"]

\* an elevator with nobody on board stays STOPPED
StoppedDepartWhenBusy(e, time, N) ==
    IF e.passengers = <<>> THEN e
    ELSE IF (e.direction = "UP" /\ e.currentFloor # N)
            \/ (e.direction = "DOWN" /\ e.currentFloor = 1)
    THEN [e EXCEPT !.state = "MOVING_UP",
                   !.nextActionTime = time + e.ELEVATOR_SPEED, !.direction = "UP"]
    ELSE [e EXCEPT !.state = "MOVING_DOWN",
                   !.nextActionTime = time + e.ELEVATOR_SPEED, !.direction = "DOWN"]

\* case STOPPED, the departure
StoppedDepart(e, time, N) ==
    IF e.direction = "UP" /\ e.currentFloor # N
    THEN [e EXCEPT !.state = "MOVING_UP",
                   !.nextActionTime = time + e.ELEVATOR_SPEED]
    ELSE IF e.direction = "UP" /\ e.currentFloor = N
    THEN [e EXCEPT !.state = "MOVING_DOWN",
                   !.nextActionTime = time + e.ELEVATOR_SPEED,
                   !.direction = "DOWN"]
    ELSE IF e.direction = "DOWN" /\ e.currentFloor # 1
    THEN [e EXCEPT !.state = "MOVING_DOWN",
                   !.nextActionTime = time + e.ELEVATOR_SPEED]
    ELSE IF e.direction = "DOWN" /\ e.currentFloor = 1
    THEN [e EXCEPT !.state = "MOVING_UP",
                   !.nextActionTime = time + e.ELEVATOR_SPEED,
                   !.direction = "UP"]
    ELSE e

\* the pickup made before the drop-off
updateStoppedPickUpFirst(e, time, N, fl) ==
    IF ~InRange(fl, e.currentFloor)
    THEN [elevator |-> e, floors |-> fl, thrown |-> TRUE]
    ELSE LET a == StoppedPickUp(StoppedDirection(e, N), fl, time)
             b == StoppedDropOff(a.elevator, a.floors, time)
         IN  [elevator |-> StoppedDepart(b.elevator, time, N),
              floors   |-> b.floors,
              thrown   |-> FALSE]

updateStopped(e, time, N, fl) ==
    IF ~InRange(fl, e.currentFloor)
    THEN [elevator |-> e, floors |-> fl, thrown |-> TRUE]
    ELSE LET a == StoppedDropOff(e, fl, time)
             b == StoppedPickUp(StoppedDirection(a.elevator, N), a.floors, time)
         IN  [elevator |-> StoppedDepart(b.elevator, time, N),
              floors   |-> b.floors,
              thrown   |-> FALSE]

\* the dwell not waited for: STOPPED at the first update after the arrival
updateStoppingAtOnce(e, time) == [e EXCEPT !.state = "STOPPED"]

updateStopping(e, time) ==
    IF e.nextActionTime = time THEN [e EXCEPT !.state = "STOPPED"] ELSE e

\* the dwell without the tick of the STOPPED state taken off
ArriveUpFullDwell(e, time, N, fl) ==
    IF shouldStopAtFloor(e, fl[e.currentFloor])
    THEN [e EXCEPT !.state = "STOPPING",
                   !.nextActionTime = time + e.ELEVATOR_STOP_TIME]
    ELSE IF e.currentFloor # N
    THEN [e EXCEPT !.nextActionTime = time + e.ELEVATOR_SPEED]
    ELSE [e EXCEPT !.state = "MOVING_DOWN",
                   !.nextActionTime = time + e.ELEVATOR_SPEED,
                   !.direction = "DOWN"]

\* case MOVING_UP, after ++currentFloor
ArriveUp(e, time, N, fl) ==
    IF shouldStopAtFloor(e, fl[e.currentFloor])
    THEN [e EXCEPT !.state = "STOPPING",
                   !.nextActionTime = time + e.ELEVATOR_STOP_TIME - 1]
    ELSE IF e.currentFloor # N
    THEN [e EXCEPT !.nextActionTime = time + e.ELEVATOR_SPEED]
    ELSE [e EXCEPT !.state = "MOVING_DOWN",
                   !.nextActionTime = time + e.ELEVATOR_SPEED,
                   !.direction = "DOWN"]

\* the turn on floor 1 without the direction set
ArriveDownKeepDirection(e, time, fl) ==
    IF shouldStopAtFloor(e, fl[e.currentFloor])
    THEN [e EXCEPT !.state = "STOPPING",
                   !.nextActionTime = time + e.ELEVATOR_STOP_TIME - 1]
    ELSE IF e.currentFloor # 1
    THEN [e EXCEPT !.nextActionTime = time + e.ELEVATOR_SPEED]
    ELSE [e EXCEPT !.state = "MOVING_UP",
                   !.nextActionTime = time + e.ELEVATOR_SPEED]

\* case MOVING_DOWN, after --currentFloor
ArriveDown(e, time, fl) ==
    IF shouldStopAtFloor(e, fl[e.currentFloor])
    THEN [e EXCEPT !.state = "STOPPING",
                   !.nextActionTime = time + e.ELEVATOR_STOP_TIME - 1]
    ELSE IF e.currentFloor # 1
    THEN [e EXCEPT !.nextActionTime = time + e.ELEVATOR_SPEED]
    ELSE [e EXCEPT !.state = "MOVING_UP",
                   !.nextActionTime = time + e.ELEVATOR_SPEED,
                   !.direction = "UP"]

\* the test of nextActionTime left out: one floor per update
updateMovingEveryTick(e, time, N, fl) ==
    LET moved == [e EXCEPT !.currentFloor =
                               IF e.state = "MOVING_UP" THEN @ + 1 ELSE @ - 1]
    IN  IF ~InRange(fl, moved.currentFloor)
        THEN [elevator |-> moved, floors |-> fl, thrown |-> TRUE]
        ELSE [elevator |-> IF e.state = "MOVING_UP"
                           THEN ArriveUp(moved, time, N, fl)
                           ELSE ArriveDown(moved, time, fl),
              floors   |-> fl,
              thrown   |-> FALSE]

updateMoving(e, time, N, fl) ==
    IF e.nextActionTime # time
    THEN [elevator |-> e, floors |-> fl, thrown |-> FALSE]
    ELSE LET moved == [e EXCEPT !.currentFloor =
                                    IF e.state = "MOVING_UP" THEN @ + 1 ELSE @ - 1]
         IN  IF ~InRange(fl, moved.currentFloor)
             THEN [elevator |-> moved, floors |-> fl, thrown |-> TRUE]
             ELSE [elevator |-> IF e.state = "MOVING_UP"
                                THEN ArriveUp(moved, time, N, fl)
                                ELSE ArriveDown(moved, time, fl),
                   floors   |-> fl,
                   thrown   |-> FALSE]

\* the update called with the time already incremented
updateAfterTick(e, time, N, fl) ==
    CASE e.state = "STOPPED"  -> updateStopped(e, time + 1, N, fl)
      [] e.state = "STOPPING" ->
            [elevator |-> updateStopping(e, time + 1), floors |-> fl, thrown |-> FALSE]
      [] OTHER                -> updateMoving(e, time + 1, N, fl)

\* Elevator::update
update(e, time, N, fl) ==
    CASE e.state = "STOPPED"  -> updateStopped(e, time, N, fl)
      [] e.state = "STOPPING" ->
            [elevator |-> updateStopping(e, time), floors |-> fl, thrown |-> FALSE]
      [] OTHER                -> updateMoving(e, time, N, fl)

(***************************************************************************)
(* Building                                                                *)
(***************************************************************************)
\* initalizeFloors
initalizeFloors(N) == [i \in 1..N |-> Floor(i)]

\* initalizeElevators
initalizeElevators(E, speed, stoppingTime) ==
    [i \in 0..(E - 1) |-> Elevator(i, speed, stoppingTime)]

\* initalizePassengers: one Passenger per row of the file, ids from 1
initalizePassengers(rows) ==
    [i \in 1..Len(rows) |->
        Passenger(i, rows[i].startTime, rows[i].startFloor, rows[i].endFloor)]

\* the loop over the elevators left out
allArrivedWithoutElevators ==
    IF \E i \in 1..NUM_OF_FLOORS : hasWaitingPassengers(floors[i])
    THEN FALSE
    ELSE passengers = <<>>

\* the loop over the floors left out
allArrivedWithoutFloors ==
    IF \E i \in 0..(NUM_OF_ELEVATORS - 1) : hasPassengers(elevators[i])
    THEN FALSE
    ELSE passengers = <<>>

\* allPassengerArrived
allPassengerArrived ==
    IF \E i \in 1..NUM_OF_FLOORS : hasWaitingPassengers(floors[i])
    THEN FALSE
    ELSE IF \E i \in 0..(NUM_OF_ELEVATORS - 1) : hasPassengers(elevators[i])
    THEN FALSE
    ELSE passengers = <<>>

\* the test of the intake loop
IntakeDue(queue, time) == queue # <<>> /\ Head(queue).startTime = time

\* the guards with > in the place of >=
EligibleAfter(i, time) ==
    CASE i = 0 -> TRUE
      [] i = 1 -> time > ELEVATOR1_START
      [] i = 2 -> time > ELEVATOR2_START
      [] i = 3 -> time > ELEVATOR3_START

\* the guards of the four update calls of one tick
Eligible(i, time) ==
    CASE i = 0 -> TRUE
      [] i = 1 -> time >= ELEVATOR1_START
      [] i = 2 -> time >= ELEVATOR2_START
      [] i = 3 -> time >= ELEVATOR3_START

\* the position after the update call of elevator i: the next call whose
\* guard holds, or the end of the loop body
AfterUpdate(i, time) ==
    IF \E j \in (i + 1)..3 : Eligible(j, time)
    THEN [pc |-> "elev",
          idx |-> CHOOSE j \in (i + 1)..3 :
                    Eligible(j, time) /\ \A k \in (i + 1)..(j - 1) : ~Eligible(k, time)]
    ELSE [pc |-> "tick", idx |-> 0]

PassengerIDs(seq) == {seq[i].passengerID : i \in 1..Len(seq)}

\* the lines logStatusPickup and logStatusDropoff write during one update
LogLines(before, after, time) ==
    {[event |-> "pickup", passengerID |-> id, time |-> time,
      floor |-> before.currentFloor, elevatorID |-> before.elevatorID] :
        id \in PassengerIDs(after.passengers) \ PassengerIDs(before.passengers)}
    \cup
    {[event |-> "dropoff", passengerID |-> id, time |-> time,
      floor |-> before.currentFloor, elevatorID |-> before.elevatorID] :
        id \in PassengerIDs(before.passengers) \ PassengerIDs(after.passengers)}

RECURSIVE SumLen(_, _)
SumLen(fl, n) ==
    IF n = 0 THEN 0 ELSE Len(fl[n].deliveredPassengers) + SumLen(fl, n - 1)

(***************************************************************************)
(* Inputs: the run configuration and the passenger file                    *)
(***************************************************************************)
StartTimes == {0, 1, ELEVATOR1_START}

GroupSizes == {1, CAPACITY + MaxExtra}

\* A group is n passengers with the same row.  A group on the top floor
\* arrives at time 0, and so does a large group on floor 1 (the first two
\* elevators can then carry everybody who waits on floor 1).
Groups(N) ==
    {g \in [n : GroupSizes, startTime : StartTimes,
            startFloor : 1..N, endFloor : 1..N] :
        /\ g.startFloor # g.endFloor
        /\ g.startFloor = N => g.startTime = 0
        /\ (g.n > 1 /\ g.startFloor = 1) => g.startTime = 0}

\* files sorted by startTime, built from at most MaxGroups groups, at most
\* one of them larger than one
GroupSeqs(N) ==
    UNION {{gs \in [1..k -> Groups(N)] :
                /\ \A i \in 1..(k - 1) : gs[i].startTime <= gs[i + 1].startTime
                /\ Cardinality({i \in 1..k : gs[i].n > 1}) <= 1}
           : k \in 0..MaxGroups}

RECURSIVE Rows(_)
Rows(gs) ==
    IF gs = <<>> THEN <<>>
    ELSE [i \in 1..Head(gs).n |->
            [startTime  |-> Head(gs).startTime,
             startFloor |-> Head(gs).startFloor,
             endFloor   |-> Head(gs).endFloor]] \o Rows(Tail(gs))

SmallBuildings ==
    {[floors |-> 3, elevs |-> 4, speed |-> 1, dwell |-> 2],
     [floors |-> 3, elevs |-> 4, speed |-> 2, dwell |-> 3]}

Scenario1Building == [floors |-> 5, elevs |-> 1, speed |-> 10, dwell |-> 2]

Scenario2Building == [floors |-> 5, elevs |-> 1, speed |-> 5, dwell |-> 2]

Scenario1Feed == <<[startTime |-> 0, startFloor |-> 1, endFloor |-> 3]>>

Scenario2Feed == <<[startTime |-> 0, startFloor |-> 1, endFloor |-> 5],
                   [startTime |-> 0, startFloor |-> 1, endFloor |-> 2]>>

LateFeed == <<[startTime |-> ELEVATOR1_START, startFloor |-> 1, endFloor |-> 3]>>

Inputs ==
    {[building |-> b, rows |-> Rows(gs)] :
        b \in SmallBuildings, gs \in GroupSeqs(3)}
    \cup
    {[building |-> Scenario1Building, rows |-> r] :
        r \in {Scenario1Feed, Scenario2Feed, LateFeed}}
    \cup
    {[building |-> Scenario2Building, rows |-> Scenario2Feed]}

(***************************************************************************)
(* The state machine                                                       *)
(***************************************************************************)
\* Building::Building
Init ==
    \E in \in Inputs :
        /\ NUM_OF_FLOORS = in.building.floors
        /\ NUM_OF_ELEVATORS = in.building.elevs
        /\ ELEVATOR_SPEED = in.building.speed
        /\ ELEVATOR_STOPPING_TIME = in.building.dwell
        /\ feed = in.rows
        /\ floors = initalizeFloors(in.building.floors)
        /\ elevators = initalizeElevators(in.building.elevs, in.building.speed,
                                          in.building.dwell)
        /\ passengers = initalizePassengers(in.rows)
        /\ totalPassenger = Len(in.rows)
        /\ deliveredPassenger = 0
        /\ currentTime = 0
        /\ pc = "check"
        /\ idx = 0
        /\ log = {}

\* the loop as do ... while: the first test is skipped
LoopCheckDoWhile ==
    /\ pc = "check"
    /\ IF allPassengerArrived /\ currentTime > 0
       THEN pc' = "stats"
       ELSE pc' = IF IntakeDue(passengers, currentTime) THEN "intake" ELSE "elev"
    /\ idx' = 0
    /\ UNCHANGED <<config, passengers, floors, elevators, currentTime,
                   deliveredPassenger, log>>

\* while (!allPassengerArrived())
LoopCheck ==
    /\ pc = "check"
    /\ IF allPassengerArrived
       THEN pc' = "stats"
       ELSE pc' = IF IntakeDue(passengers, currentTime) THEN "intake" ELSE "elev"
    /\ idx' = 0
    /\ UNCHANGED <<config, passengers, floors, elevators, currentTime,
                   deliveredPassenger, log>>

\* one pass of the intake loop
Intake ==
    /\ pc = "intake"
    /\ InRange(floors, Head(passengers).startFloor)
    /\ LET p == Head(passengers)
       IN  /\ floors' = [floors EXCEPT ![p.startFloor] = addWaitingPassenger(@, p)]
           /\ passengers' = Tail(passengers)
           /\ pc' = IF IntakeDue(Tail(passengers), currentTime) THEN "intake" ELSE "elev"
    /\ UNCHANGED <<config, elevators, currentTime, deliveredPassenger, idx, log>>

\* floors[startFloor - 1] with no such floor in the vector: undefined
\* behaviour (operator[] of std::vector does not check the index)
IntakeMissing ==
    /\ pc = "intake"
    /\ ~InRange(floors, Head(passengers).startFloor)
    /\ pc' = "undefined"
    /\ UNCHANGED <<config, passengers, floors, elevators, currentTime,
                   deliveredPassenger, idx, log>>

\* elevators[idx].update(currentTime, NUM_OF_FLOORS, floors)
Update ==
    /\ pc = "elev"
    /\ idx < NUM_OF_ELEVATORS
    /\ LET r == update(elevators[idx], currentTime, NUM_OF_FLOORS, floors)
           next == AfterUpdate(idx, currentTime)
       IN  /\ elevators' = [elevators EXCEPT ![idx] = r.elevator]
           /\ floors' = r.floors
           /\ log' = log \cup LogLines(elevators[idx], r.elevator, currentTime)
           /\ pc' = IF r.thrown THEN "out_of_range" ELSE next.pc
           /\ idx' = IF r.thrown THEN idx ELSE next.idx
    /\ UNCHANGED <<config, passengers, currentTime, deliveredPassenger>>

\* elevators[idx] with no such elevator in the vector: undefined behaviour
UpdateMissing ==
    /\ pc = "elev"
    /\ idx >= NUM_OF_ELEVATORS
    /\ pc' = "undefined"
    /\ UNCHANGED <<config, passengers, floors, elevators, currentTime,
                   deliveredPassenger, idx, log>>

\* statLog(stat_logger); ++currentTime;
Tick ==
    /\ pc = "tick"
    /\ currentTime < MaxTime
    /\ currentTime' = currentTime + 1
    /\ pc' = "check"
    /\ UNCHANGED <<config, passengers, floors, elevators, deliveredPassenger, idx, log>>

\* after the loop: count the delivered passengers and compare with the total
Finish ==
    /\ pc = "stats"
    /\ deliveredPassenger' = deliveredPassenger + SumLen(floors, NUM_OF_FLOORS)
    /\ pc' = IF totalPassenger # deliveredPassenger' THEN "runtime_error" ELSE "done"
    /\ UNCHANGED <<config, passengers, floors, elevators, currentTime, idx, log>>

Next == LoopCheck \/ Intake \/ Update \/ UpdateMissing \/ Tick \/ Finish

Spec == Init /\ [][Next]_vars

\* The loop runs on as long as it can: a single thread that never blocks.
\* The runs of the files of at most one group, and of the scenarios.
FairInputs ==
    {in \in Inputs : \A i \in 1..Len(in.rows) : in.rows[i] = in.rows[1]}

FairInit == Init /\ \E in \in FairInputs :
                      /\ feed = in.rows
                      /\ NUM_OF_FLOORS = in.building.floors
                      /\ NUM_OF_ELEVATORS = in.building.elevs
                      /\ ELEVATOR_SPEED = in.building.speed

FairSpec == FairInit /\ [][Next]_vars /\ WF_vars(Next)

(***************************************************************************)
(* Runs on any input: configurations and files the constructors do not     *)
(* refuse                                                                  *)
(***************************************************************************)
\* Passenger::Passenger throws for some row of the file
initalizePassengersThrows(rows) ==
    \E i \in 1..Len(rows) : ~PassengerValid(rows[i].startFloor, rows[i].endFloor)

\* Building::Building on input in.  The constructor stores its arguments
\* unchecked; the only exception is the invalid_argument of a Passenger.
Building(in) ==
    /\ NUM_OF_FLOORS = in.building.floors
    /\ NUM_OF_ELEVATORS = in.building.elevs
    /\ ELEVATOR_SPEED = in.building.speed
    /\ ELEVATOR_STOPPING_TIME = in.building.dwell
    /\ feed = in.rows
    /\ floors = initalizeFloors(in.building.floors)
    /\ elevators = initalizeElevators(in.building.elevs, in.building.speed,
                                      in.building.dwell)
    /\ IF initalizePassengersThrows(in.rows)
       THEN /\ passengers = <<>>
            /\ totalPassenger = 0
            /\ pc = "invalid_argument"
       ELSE /\ passengers = initalizePassengers(in.rows)
            /\ totalPassenger = Len(in.rows)
            /\ pc = "check"
    /\ deliveredPassenger = 0
    /\ currentTime = 0
    /\ idx = 0
    /\ log = {}

EdgeBuilding == [floors |-> 3, elevs |-> 4, speed |-> 1, dwell |-> 2]

\* floor numbers below, inside and above the building, and above the
\* largest floor number of a Passenger
EdgeFloors == {0, 1, 2, 3, 4, MAX_FLOOR_NUMBER + 1}

ValidRow == [startTime |-> 0, startFloor |-> 1, endFloor |-> 3]

\* one row of any floors, alone or after a valid row
EdgeFeeds ==
    UNION {{<<r>>, <<ValidRow, r>>} :
              r \in [startTime : {0}, startFloor : EdgeFloors, endFloor : EdgeFloors]}

\* one argument of the constructor zero or negative, or a stop dwell of 1
EdgeBuildings ==
    {[EdgeBuilding EXCEPT !.elevs = n] : n \in {0, -1}}
    \cup {[EdgeBuilding EXCEPT !.speed = n] : n \in {0, -1}}
    \cup {[EdgeBuilding EXCEPT !.dwell = n] : n \in {1, 0, -1}}

\* a building of one floor: its only passengers go from floor 1 to floor 1
OneFloorBuilding == [EdgeBuilding EXCEPT !.floors = 1]

EdgeInputs ==
    {[building |-> EdgeBuilding, rows |-> r] : r \in EdgeFeeds}
    \cup
    {[building |-> b, rows |-> r] :
        b \in EdgeBuildings,
        r \in {<<>>, <<ValidRow>>,
               <<[startTime |-> 0, startFloor |-> 1, endFloor |-> 2]>>}}
    \cup
    {[building |-> OneFloorBuilding, rows |-> r] :
        r \in {<<>>, <<[startTime |-> 0, startFloor |-> 1, endFloor |-> 1]>>}}

EdgeInit == \E in \in EdgeInputs : Building(in)

EdgeNext == Next \/ IntakeMissing

EdgeSpec == EdgeInit /\ [][EdgeNext]_vars

(***************************************************************************)
(* Long runs: passengers arriving on floor 1 around the ticks at which the *)
(* elevators 1, 2 and 3 start                                              *)
(***************************************************************************)
StaggerTimes == {1, ELEVATOR1_START + 1, ELEVATOR2_START + 1, ELEVATOR3_START}

\* the rows (t, floor 1, endFloor) of the times t of T, sorted by time
RECURSIVE StaggerRows(_, _)
StaggerRows(T, endFloor) ==
    IF T = {} THEN <<>>
    ELSE LET t == CHOOSE x \in T : \A y \in T : x <= y
         IN  <<[startTime |-> t, startFloor |-> 1, endFloor |-> endFloor]>>
                \o StaggerRows(T \ {t}, endFloor)

\* every file has a passenger who arrives when elevator 3 starts
StaggerFeeds ==
    {StaggerRows(T, f) : T \in {X \in SUBSET StaggerTimes : ELEVATOR3_START \in X},
                         f \in {2, 3}}

StaggerBuildings == {EdgeBuilding, [EdgeBuilding EXCEPT !.elevs = 3]}

StaggerInputs ==
    {[building |-> b, rows |-> r] : b \in StaggerBuildings, r \in StaggerFeeds}

StaggerInit == \E in \in StaggerInputs : Building(in)

\* statLog(stat_logger); ++currentTime;
StaggerTick ==
    /\ pc = "tick"
    /\ currentTime < MaxStaggerTime
    /\ currentTime' = currentTime + 1
    /\ pc' = "check"
    /\ UNCHANGED <<config, passengers, floors, elevators, deliveredPassenger, idx, log>>

StaggerNext ==
    LoopCheck \/ Intake \/ Update \/ UpdateMissing \/ StaggerTick \/ Finish

StaggerSpec == StaggerInit /\ [][StaggerNext]_vars

(***************************************************************************)
(* Starvation: a set of states the loop never leaves                       *)
(***************************************************************************)
AllWaiting(f) ==
    {floors[f].waitingPassengers[i] : i \in 1..Len(floors[f].waitingPassengers)}

\* Nobody is boarded and nobody is still to arrive; passengers wait only on
\* the top floor, and every elevator is in flight or parked below it.
Starved ==
    /\ NUM_OF_ELEVATORS = 4
    /\ NUM_OF_FLOORS >= 2
    /\ pc \in {"check", "elev", "tick"}
    /\ passengers = <<>>
    /\ \A i \in 0..(NUM_OF_ELEVATORS - 1) :
          /\ elevators[i].passengers = <<>>
          /\ elevators[i].state = "MOVING_UP" =>
                elevators[i].direction = "UP" /\ elevators[i].currentFloor < NUM_OF_FLOORS
          /\ elevators[i].state = "MOVING_DOWN" =>
                elevators[i].direction = "DOWN" /\ elevators[i].currentFloor > 1
          /\ elevators[i].state \in {"STOPPED", "STOPPING"} =>
                elevators[i].currentFloor < NUM_OF_FLOORS
    /\ \A f \in 1..(NUM_OF_FLOORS - 1) : floors[f].waitingPassengers = <<>>
    /\ floors[NUM_OF_FLOORS].waitingPassengers # <<>>
    /\ \A p \in AllWaiting(NUM_OF_FLOORS) : p.direction = "DOWN"

\* Starved is closed under every step of the loop
StarvedClosed == [][Starved => Starved']_vars

\* the clock bound of the model cuts only runs that starve
CutOnlyStarved == (pc = "tick" /\ currentTime = MaxTime) => Starved

(***************************************************************************)
(* Helpers of the properties                                               *)
(***************************************************************************)
ElevatorIds == 0..(NUM_OF_ELEVATORS - 1)

FloorIds == 1..NUM_OF_FLOORS

Delivered(f) ==
    {floors[f].deliveredPassengers[i] : i \in 1..Len(floors[f].deliveredPassengers)}

AllDelivered == UNION {Delivered(f) : f \in FloorIds}

RECURSIVE WaitingUpTo(_, _)
WaitingUpTo(fl, n) ==
    IF n = 0 THEN <<>> ELSE WaitingUpTo(fl, n - 1) \o fl[n].waitingPassengers

RECURSIVE DeliveredUpTo(_, _)
DeliveredUpTo(fl, n) ==
    IF n = 0 THEN <<>> ELSE DeliveredUpTo(fl, n - 1) \o fl[n].deliveredPassengers

RECURSIVE BoardedUpTo(_, _)
BoardedUpTo(els, n) ==
    IF n = 0 THEN <<>> ELSE BoardedUpTo(els, n - 1) \o els[n - 1].passengers

\* every passenger held by the intake queue q, the floors fl and the
\* elevators els, once per place that holds it
Held(q, fl, els) ==
    q \o WaitingUpTo(fl, Len(fl)) \o BoardedUpTo(els, Cardinality(DOMAIN els))
      \o DeliveredUpTo(fl, Len(fl))

\* each of the n passengers is held in exactly one place: n places in all,
\* and every passenger in one of them
EachOnce(held, n) == Len(held) = n /\ PassengerIDs(held) = 1..n

Min(a, b) == IF a < b THEN a ELSE b

\* the elevator whose update call is next, when there is one
Updating == pc = "elev" /\ idx < NUM_OF_ELEVATORS

\* the waiting passengers of floor record fl that want direction d, by position
Matching(floor, d) ==
    {i \in 1..Len(floor.waitingPassengers) : floor.waitingPassengers[i].direction = d}

Quiet ==
    /\ passengers = <<>>
    /\ \A f \in FloorIds : floors[f].waitingPassengers = <<>>
    /\ \A i \in ElevatorIds : elevators[i].passengers = <<>>

Scenario1 ==
    /\ NUM_OF_FLOORS = 5
    /\ ELEVATOR_SPEED = 10
    /\ ELEVATOR_STOPPING_TIME = 2
    /\ NUM_OF_ELEVATORS = 1
    /\ feed = Scenario1Feed

(***************************************************************************)
(* C1  Whenever the loop of simulate exits, every passenger read at        *)
(* construction is in a delivered set, so the final count equals the total *)
(* and the runtime_error is never raised; the loop exits only with the     *)
(* intake queue, every waiting set and every elevator empty.               *)
(***************************************************************************)
LoopExitDelivered ==
    /\ pc # "runtime_error"
    /\ pc \in {"stats", "done"} =>
          /\ Quiet
          /\ SumLen(floors, NUM_OF_FLOORS) = totalPassenger
    /\ pc = "done" => deliveredPassenger = totalPassenger

LoopExitWitness ==
    pc = "done" /\ totalPassenger > CAPACITY /\ deliveredPassenger = totalPassenger

(***************************************************************************)
(* C2  Single owner: every passenger read at construction is in exactly    *)
(* one of the intake queue, a waiting set, an elevator and a delivered     *)
(* set, after every intake and every update, and also between the drop-off *)
(* and the pickup of a STOPPED update.                                     *)
(***************************************************************************)
SingleOwner ==
    /\ EachOnce(Held(passengers, floors, elevators), totalPassenger)
    /\ (Updating /\ elevators[idx].state = "STOPPED") =>
          LET a == StoppedDropOff(elevators[idx], floors, currentTime)
          IN  EachOnce(Held(passengers, a.floors,
                            [elevators EXCEPT ![idx] = a.elevator]),
                       totalPassenger)

\* two elevators boarded passengers on the same floor in the same tick
SingleOwnerWitness ==
    \E a, b \in log :
        /\ a.event = "pickup" /\ b.event = "pickup"
        /\ a.time = b.time /\ a.floor = b.floor
        /\ a.elevatorID # b.elevatorID

(***************************************************************************)
(* C4  Capacity bound: no elevator ever holds more than CAPACITY           *)
(* passengers, and a pickup pass boards waiting passengers of the          *)
(* elevator's direction until the elevator is full or none is left, also   *)
(* when it starts the pass full.                                           *)
(***************************************************************************)
CapacityBound ==
    /\ \A i \in ElevatorIds : Len(elevators[i].passengers) <= CAPACITY
    /\ (Updating /\ elevators[idx].state = "STOPPED") =>
          LET a == StoppedDropOff(elevators[idx], floors, currentTime)
              d == StoppedDirection(a.elevator, NUM_OF_FLOORS).direction
              m == Cardinality(Matching(a.floors[a.elevator.currentFloor], d))
              r == update(elevators[idx], currentTime, NUM_OF_FLOORS, floors)
          IN  Len(r.elevator.passengers)
                 = Min(CAPACITY, Len(a.elevator.passengers) + m)

\* an elevator started its pickup pass full, boarded nobody and left a
\* passenger of its direction waiting
CapacityWitness ==
    \E i \in ElevatorIds :
        LET e == elevators[i] IN
        /\ Len(e.passengers) = CAPACITY
        /\ e.state \in {"MOVING_UP", "MOVING_DOWN"}
        /\ e.nextActionTime = currentTime + e.ELEVATOR_SPEED
        /\ Matching(floors[e.currentFloor], e.direction) # {}
        /\ ~\E l \in log : l.time = currentTime /\ l.elevatorID = i

(***************************************************************************)
(* C3  Termination: in every valid run (at least 2 floors, 4 elevators,    *)
(* speed >= 1, stop dwell >= 2, a sorted file of passengers with distinct  *)
(* start and end floors inside the building) the loop of simulate          *)
(* eventually exits and the run completes.                                 *)
(***************************************************************************)
ValidRun ==
    /\ NUM_OF_FLOORS >= 2
    /\ NUM_OF_ELEVATORS = 4
    /\ ELEVATOR_SPEED >= 1
    /\ ELEVATOR_STOPPING_TIME >= 2
    /\ \A i \in 1..Len(feed) :
          /\ feed[i].startFloor \in 1..NUM_OF_FLOORS
          /\ feed[i].endFloor \in 1..NUM_OF_FLOORS
          /\ feed[i].startFloor # feed[i].endFloor
          /\ i < Len(feed) => feed[i].startTime <= feed[i + 1].startTime

DirectionPersistence ==
    [][\A i \in ElevatorIds :
          elevators'[i].direction # elevators[i].direction =>
              elevators'[i].currentFloor \in {1, NUM_OF_FLOORS}]_vars

\* an elevator reversed at the top floor and is on its way down with a
\* passenger waiting for the other direction on an intermediate floor
DirectionWitness ==
    \E i \in ElevatorIds :
        /\ elevators[i].direction = "DOWN"
        /\ elevators[i].state = "MOVING_DOWN"
        /\ elevators[i].currentFloor \in 2..(NUM_OF_FLOORS - 1)
        /\ Matching(floors[elevators[i].currentFloor], "UP") # {}

(***************************************************************************)
(* C6  Monotonic timing: every delivered passenger has waitTime >= 0 and   *)
(* travelTime >= 0, and was boarded at a tick strictly before the tick of  *)
(* its drop-off.                                                           *)
(***************************************************************************)
LogTimes(event, id) ==
    {l.time : l \in {x \in log : x.passengerID = id /\ x.event = event}}

MonotonicTiming ==
    \A p \in AllDelivered :
        /\ p.waitTime >= 0
        /\ p.travelTime >= 0
        /\ LogTimes("pickup", p.passengerID) # {}
        /\ LogTimes("dropoff", p.passengerID) # {}
        /\ \A b \in LogTimes("pickup", p.passengerID) :
              \A d \in LogTimes("dropoff", p.passengerID) : b < d

MonotonicWitness ==
    \E p \in AllDelivered : p.waitTime > 0 /\ p.travelTime > 0

(***************************************************************************)
(* C7  A passenger waiting on a terminal floor is served by an elevator    *)
(* that arrives there with spare capacity: the elevator stops on the floor *)
(* (and then turns and boards the passenger), also when nobody on board    *)
(* gets off there.                                                         *)
(***************************************************************************)
TerminalArrivalStops ==
    [][(/\ Updating
        /\ elevators[idx].state \in {"MOVING_UP", "MOVING_DOWN"}
        /\ elevators[idx].nextActionTime = currentTime
        /\ elevators'[idx].currentFloor \in {1, NUM_OF_FLOORS}
        /\ elevators'[idx].currentFloor # elevators[idx].currentFloor
        /\ Len(elevators[idx].passengers) < CAPACITY
        /\ floors[elevators'[idx].currentFloor].waitingPassengers # <<>>)
       => elevators'[idx].state = "STOPPING"]_vars

(***************************************************************************)
(* C8  Idempotent terminal state: once allPassengerArrived() holds it      *)
(* holds after every further step; nothing is re-populated.                *)
(***************************************************************************)
\* a further update call on any elevator of a quiet system, in flight or at
\* its action time, boards nobody and changes no floor
FurtherUpdatesQuiet ==
    \A i \in ElevatorIds :
        \A t \in {currentTime, currentTime + 1, elevators[i].nextActionTime} :
            LET r == update(elevators[i], t, NUM_OF_FLOORS, floors)
            IN  r.elevator.passengers = <<>> /\ r.floors = floors

TerminalStable ==
    /\ [](allPassengerArrived => FurtherUpdatesQuiet)
    /\ [][allPassengerArrived => (allPassengerArrived' /\ Quiet')]_vars

\* everybody is delivered and elevators are still to be updated in this tick
TerminalWitness ==
    /\ allPassengerArrived
    /\ totalPassenger > 0
    /\ pc = "elev"
    /\ idx = 1

(***************************************************************************)
(* C9  Scenario 1: one elevator (speed 10, stop dwell 2), 5 floors, one    *)
(* passenger (startTime 0, floor 1 to floor 3).                            *)
(***************************************************************************)
\* the claim as stated: the recorded travelTime is 20
Scenario1TravelTime20 ==
    (Scenario1 /\ pc = "done") =>
        \A p \in AllDelivered : p.travelTime = 20

\* as amended: the elevator is on floor 3 from tick 20, drops the passenger
\* there at tick 22, and the recorded travelTime is
\* speed * floors travelled + stop dwell = 22
Scenario1TravelTime22 ==
    Scenario1 =>
        /\ (currentTime > 20 \/ (currentTime = 20 /\ pc = "tick")) =>
              elevators[0].currentFloor = 3
        /\ currentTime < 20 => elevators[0].currentFloor < 3
        /\ \A l \in log : l.event = "dropoff" => l.time = 22 /\ l.floor = 3
        /\ pc = "done" =>
              /\ Len(floors[3].deliveredPassengers) = 1
              /\ \A p \in AllDelivered :
                    /\ p.travelTime = 2 * ELEVATOR_SPEED + ELEVATOR_STOPPING_TIME
                    /\ p.travelTime = 22

Scenario1Witness ==
    Scenario1 /\ pc = "done" /\ Len(floors[3].deliveredPassengers) = 1

(***************************************************************************)
(* C10  Order of one tick: intake (of the passengers whose startTime is    *)
(* the current time) comes first, then the update calls in index order,    *)
(* then currentTime grows by exactly one.  So a passenger with startTime t *)
(* whose floor has an elevator in its STOPPED update at tick t, of the     *)
(* passenger's direction and with room left when the passenger's turn in   *)
(* the queue comes, boards at tick t with waitTime 0.                      *)
(***************************************************************************)
BoardsOnArrival ==
    (Updating /\ elevators[idx].state = "STOPPED") =>
        LET a == StoppedDropOff(elevators[idx], floors, currentTime)
            d == StoppedDirection(a.elevator, NUM_OF_FLOORS).direction
            w == floors[elevators[idx].currentFloor].waitingPassengers
            room == CAPACITY - Len(a.elevator.passengers)
        IN  \A k \in 1..Len(w) :
               (/\ w[k].startTime = currentTime
                /\ w[k].direction = d
                /\ Cardinality({j \in 1..k : w[j].direction = d}) <= room)
               => \E n \in 1..Len(elevators'[idx].passengers) :
                     /\ elevators'[idx].passengers[n].passengerID = w[k].passengerID
                     /\ elevators'[idx].passengers[n].waitTime = 0

TickOrder ==
    [][/\ pc = "check" =>
            UNCHANGED <<passengers, floors, elevators, currentTime>>
       /\ pc = "intake" =>
            /\ Head(passengers).startTime = currentTime
            /\ passengers' = Tail(passengers)
            /\ floors'[Head(passengers).startFloor].waitingPassengers
                  = Append(floors[Head(passengers).startFloor].waitingPassengers,
                           Head(passengers))
            /\ pc' \in {"intake", "elev"}
            /\ UNCHANGED <<elevators, currentTime>>
       /\ pc = "elev" =>
            /\ \A i \in ElevatorIds : i # idx => elevators'[i] = elevators[i]
            /\ pc' = "elev" => idx' > idx
            /\ pc' \in {"elev", "tick", "undefined"}
            /\ UNCHANGED <<passengers, currentTime>>
       /\ pc = "tick" =>
            /\ currentTime' = currentTime + 1
            /\ pc' = "check"
            /\ UNCHANGED <<passengers, floors, elevators>>
       /\ (pc' = "elev" /\ pc # "elev") => idx' = 0
       /\ (pc' = "tick" /\ passengers # <<>>) => Head(passengers).startTime > currentTime
       /\ BoardsOnArrival]_vars

\* a passenger admitted at tick t was boarded at tick t by an elevator that
\* already carried passengers
TickOrderWitness ==
    \E l \in log : \E i \in ElevatorIds : \E n \in 1..Len(elevators[i].passengers) :
        LET p == elevators[i].passengers[n] IN
        /\ l.event = "pickup" /\ l.passengerID = p.passengerID
        /\ l.time = p.startTime /\ l.time = currentTime /\ l.time > 0
        /\ p.waitTime = 0
        /\ Len(elevators[i].passengers) > 1

(***************************************************************************)
(* C11  Scenario 2, order of the drop-offs: passengers boarded by the same *)
(* elevator on the same floor in the same tick are dropped in the order of *)
(* their distances.  A STOPPED update drops exactly the boarded passengers *)
(* whose endFloor is the floor, the others stay on board in their order,   *)
(* and the elevator keeps the direction of the passengers it carries.  In  *)
(* scenario 2 (floor 1 to floors 5 and 2 at tick 0, speed 5) the elevator  *)
(* stops on floor 2 before floor 5.                                        *)
(***************************************************************************)
Scenario2 ==
    /\ NUM_OF_FLOORS = 5
    /\ ELEVATOR_SPEED = 5
    /\ ELEVATOR_STOPPING_TIME = 2
    /\ NUM_OF_ELEVATORS = 1
    /\ feed = Scenario2Feed

Distance(l) ==
    IF feed[l.passengerID].endFloor > l.floor
    THEN feed[l.passengerID].endFloor - l.floor
    ELSE l.floor - feed[l.passengerID].endFloor

Pickups == {l \in log : l.event = "pickup"}

Dropoffs == {l \in log : l.event = "dropoff"}

\* the passengers of sequence s that do not get off on the floor, by position
DestinedElsewhere(s, floorNumber) ==
    {i \in 1..Len(s) : s[i].endFloor # floorNumber}

DropOrder ==
    /\ \A a, b \in Pickups :
          (/\ a.elevatorID = b.elevatorID /\ a.floor = b.floor /\ a.time = b.time
           /\ Distance(a) < Distance(b))
          => \A db \in Dropoffs :
                db.passengerID = b.passengerID =>
                   \E da \in Dropoffs :
                      /\ da.passengerID = a.passengerID
                      /\ da.elevatorID = db.elevatorID
                      /\ da.time < db.time
    /\ \A l \in Dropoffs : l.floor = feed[l.passengerID].endFloor
    /\ \A i \in ElevatorIds : \A n \in 1..Len(elevators[i].passengers) :
          elevators[i].passengers[n].direction = elevators[i].direction
    /\ (Updating /\ elevators[idx].state = "STOPPED") =>
          LET e == elevators[idx]
              a == StoppedDropOff(e, floors, currentTime)
              stay == DestinedElsewhere(e.passengers, e.currentFloor)
          IN  /\ Len(a.elevator.passengers) = Cardinality(stay)
              /\ PassengerIDs(a.elevator.passengers)
                    = {e.passengers[k].passengerID : k \in stay}
              /\ \A m, n \in 1..Len(a.elevator.passengers) :
                    m < n => \E j, k \in stay :
                                /\ j < k
                                /\ e.passengers[j] = a.elevator.passengers[m]
                                /\ e.passengers[k] = a.elevator.passengers[n]
              /\ Len(a.floors[e.currentFloor].deliveredPassengers)
                    = Len(floors[e.currentFloor].deliveredPassengers)
                      + Len(e.passengers) - Cardinality(stay)
    /\ Scenario2 =>
          /\ \A l \in Dropoffs :
                /\ l.passengerID = 2 => l.floor = 2 /\ l.time = 7
                /\ l.passengerID = 1 => l.floor = 5 /\ l.time = 24
          /\ pc = "done" => Cardinality(Dropoffs) = 2

\* scenario 2 ran to its end with both passengers dropped
DropOrderWitness ==
    /\ Scenario2
    /\ pc = "done"
    /\ Len(floors[2].deliveredPassengers) = 1
    /\ Len(floors[5].deliveredPassengers) = 1

(***************************************************************************)
(* C12  A passenger record with startFloor = endFloor is rejected when the *)
(* Passenger is constructed (invalid configuration): the run does not      *)
(* start and the passenger is never in the intake queue, in a waiting set  *)
(* or in an elevator.                                                      *)
(***************************************************************************)
SameFloorRows == {i \in 1..Len(feed) : feed[i].startFloor = feed[i].endFloor}

SameFloorRejected ==
    SameFloorRows # {} =>
        /\ pc = "invalid_argument"
        /\ passengers = <<>>
        /\ \A f \in FloorIds : floors[f].waitingPassengers = <<>>
        /\ \A i \in ElevatorIds : elevators[i].passengers = <<>>

(***************************************************************************)
(* C13  With an empty passenger file simulate terminates at once: the body *)
(* of the loop is never entered, currentTime stays 0, no elevator is       *)
(* updated, both averages are NaN, the delivered count is 0 and equals the *)
(* total, and no error is raised.                                          *)
(***************************************************************************)
\* the wait times and the travel times simulate adds to its two statistics
WaitTimes(fl) ==
    [i \in 1..Len(DeliveredUpTo(fl, Len(fl))) |-> DeliveredUpTo(fl, Len(fl))[i].waitTime]

TravelTimes(fl) ==
    [i \in 1..Len(DeliveredUpTo(fl, Len(fl))) |-> DeliveredUpTo(fl, Len(fl))[i].travelTime]

EmptyFeedTerminates ==
    /\ [](feed = <<>> =>
            /\ pc \in {"check", "stats", "done"}
            /\ currentTime = 0
            /\ elevators = initalizeElevators(NUM_OF_ELEVATORS, ELEVATOR_SPEED,
                                              ELEVATOR_STOPPING_TIME)
            /\ floors = initalizeFloors(NUM_OF_FLOORS)
            /\ log = {}
            /\ totalPassenger = 0
            /\ pc \in {"stats", "done"} =>
                  /\ getAverage(WaitTimes(floors)).nan
                  /\ getAverage(TravelTimes(floors)).nan
            /\ pc = "done" => deliveredPassenger = 0)
    /\ [][feed = <<>> =>
            /\ pc = "check" => pc' = "stats"
            /\ pc = "stats" => pc' = "done"]_vars

EmptyFeedWitness ==
    feed = <<>> /\ pc = "done" /\ deliveredPassenger = totalPassenger

(***************************************************************************)
(* C14  A passenger whose startFloor or endFloor is outside                *)
(* 1..NUM_OF_FLOORS is rejected with invalid_argument when the Passenger   *)
(* is constructed, so no passenger of the intake queue, of a waiting set   *)
(* or of an elevator refers to a floor the building does not have.         *)
(***************************************************************************)
OutsideRows ==
    {i \in 1..Len(feed) : feed[i].startFloor \notin 1..NUM_OF_FLOORS
                           \/ feed[i].endFloor \notin 1..NUM_OF_FLOORS}

FloorsInsideBuilding ==
    /\ OutsideRows # {} => pc = "invalid_argument"
    /\ pc # "undefined"
    /\ LET held == passengers \o WaitingUpTo(floors, Len(floors))
                     \o BoardedUpTo(elevators, Cardinality(DOMAIN elevators))
       IN  \A i \in 1..Len(held) :
              /\ held[i].startFloor \in 1..NUM_OF_FLOORS
              /\ held[i].endFloor \in 1..NUM_OF_FLOORS

(***************************************************************************)
(* C15  A run configuration whose elevator count, speed or stop dwell is   *)
(* zero or negative fails when the Building and its Elevators are          *)
(* constructed, and the loop of simulate never starts.                     *)
(***************************************************************************)
NonPositiveConfiguration ==
    NUM_OF_ELEVATORS <= 0 \/ ELEVATOR_SPEED <= 0 \/ ELEVATOR_STOPPING_TIME <= 0

ConfigurationRejected ==
    NonPositiveConfiguration =>
        /\ pc = "invalid_argument"
        /\ currentTime = 0
        /\ log = {}

(***************************************************************************)
(* C16  Two update calls with the same currentTime.                        *)
(***************************************************************************)
\* the elevator about to be updated ends its dwell at this tick
DwellEnds ==
    Updating /\ elevators[idx].state = "STOPPING"
             /\ elevators[idx].nextActionTime = currentTime

\* the claim as stated: from every reachable state, update called twice
\* with the same currentTime leaves the elevator and the floors as update
\* called once; the second call boards nobody and drops nobody
UpdateIdempotent ==
    Updating =>
        LET once == update(elevators[idx], currentTime, NUM_OF_FLOORS, floors)
            twice == update(once.elevator, currentTime, NUM_OF_FLOORS, once.floors)
        IN  /\ twice.elevator = once.elevator
            /\ twice.floors = once.floors
            /\ LogLines(once.elevator, twice.elevator, currentTime) = {}

\* as amended (speed >= 1, stop dwell >= 2): the second call changes
\* nothing unless the first call ended the dwell of a STOPPING elevator.
\* Then the first call only sets STOPPED, and the second call is the
\* STOPPED update of the next tick made one tick early: it drops, boards
\* and departs.  In no case is a passenger boarded or dropped twice.
UpdateTwice ==
    Updating =>
        LET e == elevators[idx]
            once == update(e, currentTime, NUM_OF_FLOORS, floors)
            twice == update(once.elevator, currentTime, NUM_OF_FLOORS, once.floors)
        IN  /\ ~DwellEnds =>
                  /\ twice.elevator = once.elevator
                  /\ twice.floors = once.floors
            /\ DwellEnds =>
                  /\ once.elevator = [e EXCEPT !.state = "STOPPED"]
                  /\ once.floors = floors
                  /\ twice.elevator.state \in {"MOVING_UP", "MOVING_DOWN"}
                  /\ twice.elevator.nextActionTime = currentTime + e.ELEVATOR_SPEED
                  /\ twice.elevator.currentFloor = e.currentFloor
                  /\ \A l \in LogLines(once.elevator, twice.elevator, currentTime) :
                        ~\E k \in log : k.event = l.event /\ k.passengerID = l.passengerID
            /\ EachOnce(Held(passengers, twice.floors,
                              [elevators EXCEPT ![idx] = twice.elevator]),
                        totalPassenger)

\* a dwell ends at this tick, and a second call would drop a passenger and
\* board another
UpdateTwiceWitness ==
    /\ DwellEnds
    /\ LET once == update(elevators[idx], currentTime, NUM_OF_FLOORS, floors)
           twice == update(once.elevator, currentTime, NUM_OF_FLOORS, once.floors)
           lines == LogLines(once.elevator, twice.elevator, currentTime)
       IN  /\ \E l \in lines : l.event = "dropoff"
           /\ \E l \in lines : l.event = "pickup"

(***************************************************************************)
(* C17  For every positive number of elevators, the update calls of a tick *)
(* are made only on elevators that exist (index below NUM_OF_ELEVATORS),   *)
(* and every elevator has an update call from some tick on.                *)
(***************************************************************************)
UpdatesExistingElevators ==
    /\ pc = "elev" => idx \in ElevatorIds
    /\ pc # "undefined"
    /\ \A i \in ElevatorIds : i \in 0..3

(***************************************************************************)
(* C18  Staggered activation: before its activation tick (100, 500, 700    *)
(* for the elevators 1, 2, 3) an elevator is never updated and stays       *)
(* STOPPED on floor 1 with direction UP and no passengers, also while      *)
(* passengers wait on floor 1; from its activation tick on it is updated   *)
(* in every tick, once, after the elevators of lower index.                *)
(***************************************************************************)
ActivationTick(i) ==
    CASE i = 0 -> 0
      [] i = 1 -> 100
      [] i = 2 -> 500
      [] i = 3 -> 700

\* elevator i has had no update call in the current tick yet
NotYetUpdated(i) ==
    pc \in {"check", "intake"} \/ (pc = "elev" /\ idx <= i)

IdleStopped ==
    /\ Updating
    /\ elevators[idx].state = "STOPPED"
    /\ elevators[idx].passengers = <<>>
    /\ floors[elevators[idx].currentFloor].waitingPassengers = <<>>

\* the claim as stated: a STOPPED elevator that holds nobody, on a floor
\* where nobody waits, stays STOPPED on that floor in every update
IdleStaysStopped ==
    [][IdleStopped =>
          /\ elevators'[idx].state = "STOPPED"
          /\ elevators'[idx].currentFloor = elevators[idx].currentFloor]_vars

\* as amended: every update of a STOPPED elevator, idle or not, ends with
\* the elevator in flight on the same floor, nextActionTime one floor of
\* travel ahead: MOVING_UP below the top floor, MOVING_DOWN above floor 1
StoppedAlwaysDeparts ==
    [][(Updating /\ elevators[idx].state = "STOPPED") =>
          /\ elevators'[idx].state \in {"MOVING_UP", "MOVING_DOWN"}
          /\ elevators'[idx].nextActionTime = currentTime + ELEVATOR_SPEED
          /\ elevators'[idx].currentFloor = elevators[idx].currentFloor
          /\ elevators'[idx].state = "MOVING_UP" =>
                /\ elevators'[idx].direction = "UP"
                /\ elevators'[idx].currentFloor < NUM_OF_FLOORS
          /\ elevators'[idx].state = "MOVING_DOWN" =>
                /\ elevators'[idx].direction = "DOWN"
                /\ elevators'[idx].currentFloor > 1
          /\ IdleStopped => /\ elevators'[idx].passengers = <<>>
                            /\ floors' = floors]_vars

\* at tick 0 elevator 0 has left STOPPED with nobody on board and nobody
\* waiting on any floor; the first passenger is still to arrive
IdleDepartedWitness ==
    /\ currentTime = 0
    /\ pc = "tick"
    /\ passengers # <<>>
    /\ \A f \in FloorIds : floors[f].waitingPassengers = <<>>
    /\ elevators[0].state = "MOVING_UP"
    /\ elevators[0].passengers = <<>>
    /\ elevators[0].nextActionTime = ELEVATOR_SPEED

(***************************************************************************)
(* C20  Dwell timing: for every positive stop dwell, an elevator that      *)
(* decides to stop when it arrives at tick T goes to STOPPING with         *)
(* nextActionTime = T + dwell - 1, becomes STOPPED in the update of the    *)
(* tick nextActionTime, and drops and boards in the update of tick         *)
(* T + dwell; it never stays STOPPING forever.                             *)
(***************************************************************************)
PositiveConfiguration ==
    NUM_OF_ELEVATORS = 4 /\ ELEVATOR_SPEED >= 1 /\ ELEVATOR_STOPPING_TIME >= 1

DwellCompletes ==
    /\ [](PositiveConfiguration =>
            \A i \in ElevatorIds :
               (elevators[i].state = "STOPPING" /\ NotYetUpdated(i))
               => elevators[i].nextActionTime >= currentTime)
    /\ [][(PositiveConfiguration /\ Updating) =>
            /\ (elevators[idx].state # "STOPPING"
                /\ elevators'[idx].state = "STOPPING")
               => elevators'[idx].nextActionTime
                     = currentTime + ELEVATOR_STOPPING_TIME - 1
            /\ (elevators[idx].state = "STOPPING"
                /\ elevators[idx].nextActionTime = currentTime)
               => elevators'[idx].state = "STOPPED"]_vars

(***************************************************************************)
(* C21  Stop rule: a moving elevator that advances to a new floor goes to  *)
(* STOPPING if and only if a boarded passenger has that floor as endFloor, *)
(* or the elevator holds no more than CAPACITY passengers and a passenger  *)
(* waiting on that floor has the elevator's direction.  Otherwise it keeps *)
(* moving with nextActionTime = currentTime + speed, and it changes        *)
(* direction and moving state only if the new floor is floor 1 or the top  *)
(* floor.                                                                  *)
(***************************************************************************)
\* the elevator about to be updated is in flight and at its action time
Arriving ==
    /\ Updating
    /\ elevators[idx].state \in {"MOVING_UP", "MOVING_DOWN"}
    /\ elevators[idx].nextActionTime = currentTime

\* the floor the arriving elevator advances to
NewFloor ==
    IF elevators[idx].state = "MOVING_UP"
    THEN elevators[idx].currentFloor + 1
    ELSE elevators[idx].currentFloor - 1

StopWanted ==
    \/ \E n \in 1..Len(elevators[idx].passengers) :
          elevators[idx].passengers[n].endFloor = NewFloor
    \/ /\ Len(elevators[idx].passengers) <= CAPACITY
       /\ Matching(floors[NewFloor], elevators[idx].direction) # {}

FullElevatorPasses ==
    [][(/\ Arriving
        /\ Len(elevators[idx].passengers) = CAPACITY
        /\ \A n \in 1..Len(elevators[idx].passengers) :
              elevators[idx].passengers[n].endFloor # NewFloor)
       => elevators'[idx].state # "STOPPING"]_vars

(***************************************************************************)
(* C23  Drop-off before pickup: in a STOPPED update the boarded passengers *)
(* whose endFloor is the floor leave before any waiting passenger is       *)
(* looked at, so a full elevator from which k passengers get off boards up *)
(* to k waiting passengers of its direction in the same tick.              *)
(***************************************************************************)
\* the boarded passengers of elevator record e that get off on its floor
Alighting(e) ==
    {n \in 1..Len(e.passengers) : e.passengers[n].endFloor = e.currentFloor}

DropOffBeforePickUp ==
    [][(Updating /\ elevators[idx].state = "STOPPED") =>
          LET e == elevators[idx]
              k == Cardinality(Alighting(e))
              d == StoppedDirection(e, NUM_OF_FLOORS).direction
              m == Cardinality(Matching(floors[e.currentFloor], d))
              lines == log' \ log
              dropped == {l \in lines : l.event = "dropoff"}
              boarded == {l \in lines : l.event = "pickup"}
          IN  /\ {l.passengerID : l \in dropped}
                    = {e.passengers[n].passengerID : n \in Alighting(e)}
              /\ Cardinality(boarded) = Min(CAPACITY - Len(e.passengers) + k, m)
              /\ Len(e.passengers) = CAPACITY => Cardinality(boarded) = Min(k, m)
              /\ Len(elevators'[idx].passengers)
                    = Len(e.passengers) - k + Cardinality(boarded)]_vars

\* a full elevator has just let all its passengers off and boarded a
\* waiting passenger in the same update
DropOffBeforePickUpWitness ==
    \E i \in ElevatorIds :
        /\ elevators[i].state \in {"MOVING_UP", "MOVING_DOWN"}
        /\ elevators[i].nextActionTime = currentTime + ELEVATOR_SPEED
        /\ Cardinality({l \in Dropoffs : l.elevatorID = i /\ l.time = currentTime})
              = CAPACITY
        /\ \E l \in Pickups : l.elevatorID = i /\ l.time = currentTime

(***************************************************************************)
(* C24  Pickup is first in, first out per direction: a pickup pass boards  *)
(* exactly the longest prefix, in arrival order, of the waiting passengers *)
(* of the elevator's direction that fits in the room left.  Afterwards the *)
(* elevator is full or nobody of its direction waits on the floor, the     *)
(* passengers of the other direction are untouched, and the passengers     *)
(* left waiting keep their order.                                          *)
(***************************************************************************)
\* the positions in waiting sequence w of the first n passengers of
\* direction d
FirstMatching(w, d, n) ==
    {k \in 1..Len(w) :
        /\ w[k].direction = d
        /\ Cardinality({j \in 1..k : w[j].direction = d}) <= n}

\* the passengers of w at the positions of P, in the order of w
RECURSIVE AtPositions(_, _)
AtPositions(w, P) ==
    IF w = <<>> THEN <<>>
    ELSE AtPositions(SubSeq(w, 1, Len(w) - 1), P)
            \o (IF Len(w) \in P THEN <<w[Len(w)]>> ELSE <<>>)

PickUpFifo ==
    (Updating /\ elevators[idx].state = "STOPPED") =>
        LET a == StoppedDropOff(elevators[idx], floors, currentTime)
            e == StoppedDirection(a.elevator, NUM_OF_FLOORS)
            w == a.floors[e.currentFloor].waitingPassengers
            room == CAPACITY - Len(e.passengers)
            P == FirstMatching(w, e.direction, room)
            r == StoppedPickUp(e, a.floors, currentTime)
            left == r.floors[e.currentFloor].waitingPassengers
            on == r.elevator.passengers
        IN  /\ left = AtPositions(w, (1..Len(w)) \ P)
            /\ Len(on) = Len(e.passengers) + Cardinality(P)
            /\ SubSeq(on, 1, Len(e.passengers)) = e.passengers
            /\ [n \in 1..Cardinality(P) |->
                   [on[Len(e.passengers) + n] EXCEPT !.waitTime = 0]]
                  = AtPositions(w, P)
            /\ Len(on) = CAPACITY \/ Matching(r.floors[e.currentFloor], e.direction) = {}
            /\ \A n \in 1..Len(w) : w[n].direction # e.direction =>
                  \E j \in 1..Len(left) : left[j] = w[n]
            /\ \A f \in FloorIds : f # e.currentFloor => r.floors[f] = a.floors[f]
            /\ \A n \in 1..(Len(w) - 1) : w[n].passengerID < w[n + 1].passengerID

\* a passenger has just boarded who had arrived on the floor after a
\* passenger of the other direction, who is still waiting there
PickUpFifoWitness ==
    \E l \in Pickups : \E n \in 1..Len(floors[l.floor].waitingPassengers) :
        /\ l.time = currentTime
        /\ floors[l.floor].waitingPassengers[n].passengerID < l.passengerID
        /\ floors[l.floor].waitingPassengers[n].direction
              # Passenger(l.passengerID, 0, l.floor, feed[l.passengerID].endFloor).direction

(***************************************************************************)
(* C25  In-flight frame: an update of an elevator in MOVING_UP,            *)
(* MOVING_DOWN or STOPPING with currentTime # nextActionTime changes       *)
(* nothing (floor, direction, state, nextActionTime, boarded passengers,   *)
(* all floors).  With currentTime = nextActionTime in a moving state the   *)
(* floor changes by exactly one in the direction of travel and nobody      *)
(* boards or leaves.                                                       *)
(***************************************************************************)
InFlightFrame ==
    [][(Updating /\ elevators[idx].state \in {"MOVING_UP", "MOVING_DOWN", "STOPPING"}) =>
          /\ elevators[idx].nextActionTime # currentTime =>
                /\ elevators' = elevators
                /\ floors' = floors
                /\ log' = log
          /\ (elevators[idx].nextActionTime = currentTime
              /\ elevators[idx].state = "MOVING_UP") =>
                elevators'[idx].currentFloor = elevators[idx].currentFloor + 1
          /\ (elevators[idx].nextActionTime = currentTime
              /\ elevators[idx].state = "MOVING_DOWN") =>
                elevators'[idx].currentFloor = elevators[idx].currentFloor - 1
          /\ elevators'[idx].passengers = elevators[idx].passengers
          /\ floors' = floors
          /\ log' = log
          /\ \A i \in ElevatorIds \ {idx} : elevators'[i] = elevators[i]]_vars

\* elevator 0 carries passengers between two floors: its update of this
\* tick found nextActionTime still ahead and did nothing
InFlightWitness ==
    /\ pc = "tick"
    /\ elevators[0].state \in {"MOVING_UP", "MOVING_DOWN"}
    /\ elevators[0].passengers # <<>>
    /\ elevators[0].nextActionTime > currentTime
    /\ elevators[0].nextActionTime < currentTime + ELEVATOR_SPEED

(***************************************************************************)
(* C26  Frame of an update: the update of one elevator changes only that   *)
(* elevator and the waiting and delivered sets of the one floor it is on   *)
(* when the update starts; every other floor and every other elevator is   *)
(* unchanged.                                                              *)
(***************************************************************************)
UpdateFrame ==
    [][Updating =>
          /\ \A f \in FloorIds \ {elevators[idx].currentFloor} : floors'[f] = floors[f]
          /\ \A f \in FloorIds : floors'[f].floorNumber = floors[f].floorNumber
          /\ \A i \in ElevatorIds \ {idx} : elevators'[i] = elevators[i]
          /\ elevators'[idx].elevatorID = elevators[idx].elevatorID
          /\ DOMAIN elevators' = DOMAIN elevators
          /\ DOMAIN floors' = DOMAIN floors
          /\ UNCHANGED <<config, passengers, currentTime, deliveredPassenger>>]_vars

\* an elevator has just dropped a passenger on its floor while passengers
\* wait on another floor and another elevator is in flight
UpdateFrameWitness ==
    \E d \in Dropoffs :
        /\ d.time = currentTime
        /\ \E f \in FloorIds \ {d.floor} : floors[f].waitingPassengers # <<>>
        /\ \E i \in ElevatorIds \ {d.elevatorID} :
              elevators[i].state \in {"MOVING_UP", "MOVING_DOWN"}

(***************************************************************************)
(* C27  Delivered sets are append-only and correct: a passenger enters the *)
(* delivered set of floor f only through a drop-off by an elevator STOPPED *)
(* on f and only if its endFloor is f; once in a delivered set it never    *)
(* leaves it and never changes.                                            *)
(***************************************************************************)
DeliveredAppendOnly ==
    /\ [](\A f \in FloorIds : \A p \in Delivered(f) :
            /\ p.endFloor = f
            /\ \E l \in Dropoffs : l.passengerID = p.passengerID /\ l.floor = f)
    /\ [][\A f \in FloorIds :
            LET old == floors[f].deliveredPassengers
                new == floors'[f].deliveredPassengers
            IN  /\ Len(new) >= Len(old)
                /\ SubSeq(new, 1, Len(old)) = old
                /\ Len(new) > Len(old) =>
                      /\ Updating
                      /\ elevators[idx].state = "STOPPED"
                      /\ elevators[idx].currentFloor = f
                      /\ \A n \in (Len(old) + 1)..Len(new) :
                            /\ new[n].endFloor = f
                            /\ new[n].passengerID \in PassengerIDs(elevators[idx].passengers)
                            /\ new[n].passengerID
                                  \notin PassengerIDs(elevators'[idx].passengers)]_vars

\* a delivered set holds passengers of two drop-offs at different ticks
DeliveredWitness ==
    \E f \in FloorIds : \E a, b \in Dropoffs :
        /\ a.floor = f /\ b.floor = f
        /\ a.time < b.time
        /\ Len(floors[f].deliveredPassengers) >= 2

(***************************************************************************)
(* C28  Over a run each passenger's waitTime is written exactly once, at   *)
(* its single boarding, and its travelTime exactly once, at its single     *)
(* drop-off; no passenger is boarded twice or dropped twice, and its       *)
(* direction never changes after construction.                            *)
(***************************************************************************)
Lines(event, id) == {l \in log : l.event = event /\ l.passengerID = id}

\* the passenger of row id as its constructor made it
Constructed(id) ==
    Passenger(id, feed[id].startTime, feed[id].startFloor, feed[id].endFloor)

WrittenOnce ==
    /\ LET unboarded == passengers \o WaitingUpTo(floors, Len(floors))
       IN  \A n \in 1..Len(unboarded) :
              /\ unboarded[n] = Constructed(unboarded[n].passengerID)
              /\ Lines("pickup", unboarded[n].passengerID) = {}
              /\ Lines("dropoff", unboarded[n].passengerID) = {}
    /\ \A i \in ElevatorIds : \A n \in 1..Len(elevators[i].passengers) :
          LET p == elevators[i].passengers[n]
          IN  /\ Cardinality(Lines("pickup", p.passengerID)) = 1
              /\ Lines("dropoff", p.passengerID) = {}
              /\ \A l \in Lines("pickup", p.passengerID) :
                    /\ l.elevatorID = i
                    /\ p = [Constructed(p.passengerID) EXCEPT
                               !.waitTime = l.time - p.startTime]
    /\ \A p \in AllDelivered :
          /\ Cardinality(Lines("pickup", p.passengerID)) = 1
          /\ Cardinality(Lines("dropoff", p.passengerID)) = 1
          /\ \A b \in Lines("pickup", p.passengerID) :
                \A d \in Lines("dropoff", p.passengerID) :
                   /\ b.elevatorID = d.elevatorID
                   /\ p = [Constructed(p.passengerID) EXCEPT
                              !.waitTime = b.time - p.startTime,
                              !.travelTime = d.time - b.time]

\* a run has ended with several passengers, one of whom had to wait
WrittenOnceWitness ==
    /\ pc = "done"
    /\ totalPassenger >= 2
    /\ Cardinality(log) = 2 * totalPassenger
    /\ \E p \in AllDelivered : p.waitTime > 0

(***************************************************************************)
(* C29  For every positive number of floors, one floor included, the       *)
(* currentFloor of every elevator stays within 1..NUM_OF_FLOORS in every   *)
(* reachable state, so update never indexes a floor that does not exist.   *)
(***************************************************************************)
CurrentFloorInRange ==
    NUM_OF_FLOORS >= 1 =>
        /\ \A i \in ElevatorIds : elevators[i].currentFloor \in 1..NUM_OF_FLOORS
        /\ pc # "out_of_range"

(***************************************************************************)
(* C30  A boarded passenger is never carried away from or past its         *)
(* destination (passengers with startFloor # endFloor, both inside the     *)
(* building): in MOVING_UP every boarded passenger has endFloor above      *)
(* currentFloor, in MOVING_DOWN below it.  Every floor change of the       *)
(* elevator brings each boarded passenger one floor nearer, so a passenger *)
(* boarded on startFloor is dropped on endFloor after exactly              *)
(* |endFloor - startFloor| floor changes.                                  *)
(***************************************************************************)
Gap(a, b) == IF a > b THEN a - b ELSE b - a

NeverCarriedPast ==
    /\ [](\A i \in ElevatorIds : \A n \in 1..Len(elevators[i].passengers) :
            LET p == elevators[i].passengers[n]
                e == elevators[i]
            IN  /\ e.state = "MOVING_UP" => p.endFloor > e.currentFloor
                /\ e.state = "MOVING_DOWN" => p.endFloor < e.currentFloor
                /\ p.direction = "UP" =>
                      p.startFloor <= e.currentFloor /\ e.currentFloor <= p.endFloor
                /\ p.direction = "DOWN" =>
                      p.endFloor <= e.currentFloor /\ e.currentFloor <= p.startFloor)
    /\ [](/\ \A l \in Pickups : l.floor = feed[l.passengerID].startFloor
          /\ \A l \in Dropoffs : l.floor = feed[l.passengerID].endFloor)
    /\ [][\A i \in ElevatorIds :
            elevators'[i].currentFloor # elevators[i].currentFloor =>
               /\ elevators'[i].passengers = elevators[i].passengers
               /\ \A n \in 1..Len(elevators[i].passengers) :
                     Gap(elevators[i].passengers[n].endFloor, elevators'[i].currentFloor)
                        = Gap(elevators[i].passengers[n].endFloor,
                              elevators[i].currentFloor) - 1]_vars

\* an elevator in flight between the start floor and the end floor of a
\* passenger it carries
NeverCarriedPastWitness ==
    \E i \in ElevatorIds : \E n \in 1..Len(elevators[i].passengers) :
        LET p == elevators[i].passengers[n] IN
        /\ elevators[i].state \in {"MOVING_UP", "MOVING_DOWN"}
        /\ elevators[i].currentFloor # p.startFloor
        /\ elevators[i].currentFloor # p.endFloor

(***************************************************************************)
(* C31  Time arithmetic: for every delivered passenger, waitTime is the    *)
(* boarding tick minus startTime, waitTime + travelTime is the drop-off    *)
(* tick minus startTime, and travelTime is at least                        *)
(* speed * |endFloor - startFloor| + stop dwell: the ride takes speed      *)
(* ticks per floor and stop dwell ticks per stop, the last stop included.  *)
(***************************************************************************)
TimeArithmetic ==
    \A p \in AllDelivered :
        LET ride == ELEVATOR_SPEED * Gap(p.endFloor, p.startFloor)
        IN  /\ \A b \in Lines("pickup", p.passengerID) :
                  p.waitTime = b.time - p.startTime
            /\ \A d \in Lines("dropoff", p.passengerID) :
                  p.waitTime + p.travelTime = d.time - p.startTime
            /\ Lines("pickup", p.passengerID) # {}
            /\ Lines("dropoff", p.passengerID) # {}
            /\ p.travelTime >= ride + ELEVATOR_STOPPING_TIME
            /\ \E stops \in 1..Gap(p.endFloor, p.startFloor) :
                  p.travelTime = ride + stops * ELEVATOR_STOPPING_TIME

\* a delivered passenger who waited and whose ride had a stop on the way
TimeArithmeticWitness ==
    \E p \in AllDelivered :
        /\ p.waitTime > 0
        /\ p.travelTime = ELEVATOR_SPEED * Gap(p.endFloor, p.startFloor)
                             + 2 * ELEVATOR_STOPPING_TIME

(***************************************************************************)
(* C32  In every valid run (4 elevators, speed >= 1, stop dwell >= 2, a    *)
(* finite sorted file) a passenger waiting on a floor that is neither      *)
(* floor 1 nor the top floor is eventually boarded: every elevator with    *)
(* room that arrives on the floor travelling in the passenger's direction  *)
(* stops, and its STOPPED update boards the waiting passengers of that     *)
(* direction in arrival order.                                             *)
(***************************************************************************)
InnerFloors == 2..(NUM_OF_FLOORS - 1)

\* every passenger of the file whose startFloor is an inner floor has been
\* boarded
InnerPassengersBoarded ==
    \A id \in 1..Len(feed) :
        feed[id].startFloor \in InnerFloors => Lines("pickup", id) # {}

EventuallyBoarded ==
    /\ ValidRun => <>[]InnerPassengersBoarded
    /\ [][(/\ ValidRun
           /\ Arriving
           /\ NewFloor \in InnerFloors
           /\ Len(elevators[idx].passengers) < CAPACITY
           /\ Matching(floors[NewFloor], elevators[idx].direction) # {})
          => /\ elevators'[idx].state = "STOPPING"
             /\ elevators'[idx].direction = elevators[idx].direction]_vars
    /\ [][(/\ ValidRun
           /\ Updating
           /\ elevators[idx].state = "STOPPED"
           /\ elevators[idx].currentFloor \in InnerFloors)
          => LET e == elevators[idx]
                 w == floors[e.currentFloor].waitingPassengers
                 room == CAPACITY - Len(e.passengers) + Cardinality(Alighting(e))
             IN  \A k \in FirstMatching(w, e.direction, room) :
                    /\ w[k].passengerID \in PassengerIDs(elevators'[idx].passengers)
                    /\ w[k].passengerID
                          \notin PassengerIDs(floors'[e.currentFloor].waitingPassengers)]_vars

\* a passenger who waited on floor 2 is on board of an elevator
EventuallyBoardedWitness ==
    /\ ValidRun
    /\ \E i \in ElevatorIds : \E n \in 1..Len(elevators[i].passengers) :
          /\ elevators[i].passengers[n].startFloor \in InnerFloors
          /\ elevators[i].passengers[n].waitTime > 0

(***************************************************************************)
(* C33  Elevators that make their STOPPED update on the same floor in the  *)
(* same tick are served in index order: the elevator of lower index boards *)
(* first, the one of higher index sees only the passengers left, no        *)
(* passenger boards two elevators, and the passengers they board together  *)
(* are a prefix, in arrival order, of the waiting passengers of each       *)
(* direction.                                                              *)
(***************************************************************************)
IndexOrder ==
    /\ [](/\ \A a, b \in Pickups :
               (/\ a.time = b.time /\ a.floor = b.floor
                /\ a.elevatorID < b.elevatorID
                /\ Constructed(a.passengerID).direction
                      = Constructed(b.passengerID).direction)
               => a.passengerID < b.passengerID
          /\ \A id \in 1..totalPassenger : Cardinality(Lines("pickup", id)) <= 1
          /\ \A l \in Pickups :
               l.time = currentTime =>
                  \A n \in 1..Len(floors[l.floor].waitingPassengers) :
                     LET w == floors[l.floor].waitingPassengers[n]
                     IN  w.direction = Constructed(l.passengerID).direction
                            => l.passengerID < w.passengerID)
    /\ [][Updating =>
            LET cf == elevators[idx].currentFloor
                new == PassengerIDs(elevators'[idx].passengers)
                          \ PassengerIDs(elevators[idx].passengers)
            IN  /\ new \subseteq PassengerIDs(floors[cf].waitingPassengers)
                /\ PassengerIDs(floors'[cf].waitingPassengers)
                      = PassengerIDs(floors[cf].waitingPassengers) \ new
                /\ pc' = "elev" => idx' > idx]_vars

\* in this tick an elevator filled up on a floor and an elevator of higher
\* index boarded a passenger of the same direction who was left there
IndexOrderWitness ==
    \E a, b \in Pickups :
        /\ a.time = currentTime /\ b.time = currentTime
        /\ a.floor = b.floor
        /\ a.elevatorID < b.elevatorID
        /\ Constructed(a.passengerID).direction = Constructed(b.passengerID).direction
        /\ Len(elevators[a.elevatorID].passengers) = CAPACITY

(***************************************************************************)
(* C34  State and direction agree: in every reachable state an elevator in *)
(* MOVING_UP has direction UP and an elevator in MOVING_DOWN has direction *)
(* DOWN.                                                                   *)
(***************************************************************************)
StateDirectionAgree ==
    \A i \in ElevatorIds :
        /\ elevators[i].state = "MOVING_UP" => elevators[i].direction = "UP"
        /\ elevators[i].state = "MOVING_DOWN" => elevators[i].direction = "DOWN"
        /\ elevators[i].direction \in {"UP", "DOWN"}
        /\ elevators[i].state \in {"STOPPED", "STOPPING", "MOVING_UP", "MOVING_DOWN"}

\* elevator 0 has turned on floor 1 without stopping and moves up again,
\* while elevator 1 has turned on the top floor and moves down
StateDirectionWitness ==
    /\ elevators[0].state = "MOVING_UP"
    /\ elevators[0].currentFloor = 1
    /\ currentTime > ELEVATOR1_START
    /\ elevators[0].nextActionTime = currentTime + ELEVATOR_SPEED
    /\ ~\E l \in log : l.elevatorID = 0 /\ l.time >= currentTime - ELEVATOR_STOPPING_TIME
    /\ elevators[1].state = "MOVING_DOWN"
    /\ elevators[1].currentFloor > 1

=============================================================================
